---- MODULE Spec2Model ----
(***************************************************************************)
(* BrainDesk: the two Redux slices (tasks, settings), their AsyncStorage   *)
(* persistence, application bootstrap, and the settings-screen handlers    *)
(* (import, delete all data).                                              *)
(*                                                                         *)
(* AsyncStorage is modelled as one serial executor: storage operations     *)
(* complete in the order in which they were issued, and the JavaScript     *)
(* continuation awaiting an operation runs when the operation completes.   *)
(***************************************************************************)
EXTENDS Integers, Sequences, FiniteSets, TLC

VARIABLES
    tasks,        \* state.todo.tasks: sequence of Task records
    settings,     \* state.settings: [themeMode, subjects, notificationTime]
    stTasks,      \* AsyncStorage record "braindesk:tasks"
    stSettings,   \* AsyncStorage record "braindesk:settings"
    queue,        \* storage operations issued and not yet completed (FIFO)
    isReady,      \* Layout's isReady: bootstrapApp() has resolved
    mounted,      \* TodoScreen has mounted (its useEffect ran)
    nextUuid,     \* index of the next identifier uuid() returns
    importPc,     \* "idle" | "picking": handleImport awaits the picker/file
    currentTasks, \* the task list captured by the running handleImport
    alert,        \* ImportButton's modal: [visible, type, title, n]
    lastAct,      \* history: the operation that produced this state
    ops,          \* history: number of user events so far
    exported,     \* the parsed content of braindesk_backup.json, once written
    modalVisible, \* DeleteAllButton's warning modal is shown
    successVisible, \* DeleteAllButton's 'Data Deleted' modal is shown
    filters,      \* TodoScreen: selectedDate and the three filters
    form,         \* TodoScreen: the task modal's state and the alert's
    calendar      \* InlineWeekCalendar: weeks, currentIndex, the list's page

vars == <<tasks, settings, stTasks, stSettings, queue, isReady, mounted,
          nextUuid, importPc, currentTasks, alert, lastAct, ops,
          exported, modalVisible, successVisible, filters, form, calendar>>

\* the state of TodoScreen and of its InlineWeekCalendar
todoUi == <<filters, form, calendar>>

(***************************************************************************)
(* Bounds of the model.                                                    *)
(***************************************************************************)
MaxOps == 2

(***************************************************************************)
(* JavaScript values.                                                      *)
(***************************************************************************)
Null == "<null>"
Undefined == "<undefined>"

Range(s) == {s[i] : i \in 1..Len(s)}

NoDup(s) == \A i, j \in 1..Len(s) : i # j => s[i] # s[j]

\* Array.prototype.includes
Includes(s, x) == \E i \in 1..Len(s) : s[i] = x

\* Array.from(new Set(s)): first occurrences, in order
RECURSIVE Dedupe(_)
Dedupe(s) ==
    IF s = <<>> THEN <<>>
    ELSE LET init == Dedupe(SubSeq(s, 1, Len(s) - 1))
             x == s[Len(s)]
         IN IF Includes(init, x) THEN init ELSE Append(init, x)

\* the identifiers uuid() hands out, in order; never one handed out before
UuidPool == <<"u1", "u2", "u3", "u4", "u5", "u6">>

Ids(ts) == {ts[i].id : i \in 1..Len(ts)}

(***************************************************************************)
(* Settings slice: state, payloads and reducers.                           *)
(***************************************************************************)
defaultState ==
    [themeMode |-> "system",
     subjects |-> <<"Physics", "Chemistry", "Math">>,
     notificationTime |-> Null]

\* A Partial<SettingsState> / a parsed JSON settings object. A key that is
\* absent reads as undefined; subjectsIsArray is Array.isArray(subjects).
Partial(theme, isArr, subs, nt) ==
    [themeMode |-> theme, subjectsIsArray |-> isArr, subjects |-> subs,
     notificationTime |-> nt]

EmptyPartial == Partial(Undefined, FALSE, <<>>, Undefined)

FullPartial(s) == Partial(s.themeMode, TRUE, s.subjects, s.notificationTime)

setThemeMode(s, mode) == [s EXCEPT !.themeMode = mode]

addSubject_Always(s, subject) ==
    [s EXCEPT !.subjects = Append(s.subjects, subject)]

addSubject(s, subject) ==
    IF ~Includes(s.subjects, subject)
    THEN [s EXCEPT !.subjects = Append(s.subjects, subject)]
    ELSE s

deleteSubject(s, subject) ==
    [s EXCEPT !.subjects = SelectSeq(s.subjects, LAMBDA x : x # subject)]

setNotificationTime(s, t) == [s EXCEPT !.notificationTime = t]

loadSettings_Replace(s, p) ==
    [themeMode |-> IF p.themeMode # Undefined THEN p.themeMode
                   ELSE defaultState.themeMode,
     subjects |-> IF p.subjectsIsArray THEN p.subjects
                  ELSE defaultState.subjects,
     notificationTime |->
        IF p.notificationTime # Undefined THEN p.notificationTime
        ELSE defaultState.notificationTime]

loadSettings(s, p) ==
    [themeMode |-> IF p.themeMode # Undefined THEN p.themeMode ELSE s.themeMode,
     subjects |-> IF p.subjectsIsArray THEN p.subjects ELSE s.subjects,
     notificationTime |->
        IF p.notificationTime # Undefined THEN p.notificationTime
        ELSE s.notificationTime]

\* truthiness of a theme value: undefined, null and "" are falsy
Truthy(v) == v \notin {Undefined, Null, ""}

mergeSettings_Concat(s, incoming) ==
    [themeMode |-> IF Truthy(incoming.themeMode) THEN incoming.themeMode
                   ELSE s.themeMode,
     subjects |-> IF incoming.subjectsIsArray
                  THEN s.subjects \o incoming.subjects
                  ELSE s.subjects,
     notificationTime |->
        IF incoming.notificationTime # Undefined THEN incoming.notificationTime
        ELSE s.notificationTime]

mergeSettings_AssignsTime(s, incoming) ==
    [themeMode |-> IF Truthy(incoming.themeMode) THEN incoming.themeMode
                   ELSE s.themeMode,
     subjects |-> IF incoming.subjectsIsArray
                  THEN Dedupe(s.subjects \o incoming.subjects)
                  ELSE s.subjects,
     notificationTime |-> incoming.notificationTime]

mergeSettings(s, incoming) ==
    [themeMode |-> IF Truthy(incoming.themeMode) THEN incoming.themeMode
                   ELSE s.themeMode,
     subjects |-> IF incoming.subjectsIsArray
                  THEN Dedupe(s.subjects \o incoming.subjects)
                  ELSE s.subjects,
     notificationTime |->
        IF incoming.notificationTime # Undefined THEN incoming.notificationTime
        ELSE s.notificationTime]

clearSettings(s) ==
    [themeMode |-> "system",
     subjects |-> <<"Physics", "Chemistry", "Math">>,
     notificationTime |-> Null]

(***************************************************************************)
(* Todo slice: Task records and reducers.                                  *)
(***************************************************************************)
Task(id, text, subject, priority, completed, createdAt, completedAt) ==
    [id |-> id, text |-> text, subject |-> subject, priority |-> priority,
     completed |-> completed, createdAt |-> createdAt,
     completedAt |-> completedAt, deletedAt |-> Null]

\* new Date().toISOString()
Now == "2025-07-11T10:00:00.000Z"

\* typeof v === "string": a missing or non-string field reads as Undefined,
\* a null field as Null
IsString(v) == v \notin {Undefined, Null}

\* the required-string-field check of mergeTasks and of handleImport
IsValidTask(t) ==
    /\ IsString(t.id)
    /\ IsString(t.text)
    /\ IsString(t.subject)
    /\ IsString(t.priority)
    /\ IsString(t.createdAt)

addTask(ts, id, p) ==
    Append(ts, Task(id, p.text, p.subject, p.priority, FALSE,
                    IF p.createdAt # Undefined THEN p.createdAt ELSE Now,
                    Null))

HasId(ts, id) == \E i \in 1..Len(ts) : ts[i].id = id

\* Array.prototype.find: the first task with the identifier
FindIndex(ts, id) == CHOOSE i \in 1..Len(ts) :
    /\ ts[i].id = id
    /\ \A j \in 1..(i - 1) : ts[j].id # id

editTask_AppliesPayload(ts, p) ==
    IF HasId(ts, p.id)
    THEN [ts EXCEPT ![FindIndex(ts, p.id)] =
            [@ EXCEPT !.text = p.text, !.priority = p.priority,
                      !.subject = p.subject, !.completed = p.completed,
                      !.createdAt = p.createdAt]]
    ELSE ts

editTask(ts, p) ==
    IF HasId(ts, p.id)
    THEN [ts EXCEPT ![FindIndex(ts, p.id)] =
            [@ EXCEPT !.text = p.text, !.priority = p.priority,
                      !.subject = p.subject]]
    ELSE ts

toggleTask_AlwaysStamps(ts, id) ==
    IF HasId(ts, id)
    THEN [ts EXCEPT ![FindIndex(ts, id)] =
            [@ EXCEPT !.completed = ~@, !.completedAt = Now]]
    ELSE ts

toggleTask(ts, id) ==
    IF HasId(ts, id)
    THEN [ts EXCEPT ![FindIndex(ts, id)] =
            [@ EXCEPT !.completed = ~@,
                      !.completedAt = IF ~ts[FindIndex(ts, id)].completed
                                      THEN Now ELSE Null]]
    ELSE ts

deleteTask(ts, id) == SelectSeq(ts, LAMBDA t : t.id # id)

mergeTasks_Overwrite(ts, payload) ==
    LET incomingTasks == SelectSeq(payload, IsValidTask)
    IN SelectSeq(ts, LAMBDA t : t.id \notin Ids(incomingTasks))
         \o incomingTasks

mergeTasks(ts, payload) ==
    LET incomingTasks == SelectSeq(payload, IsValidTask)
        existingIds == Ids(ts)
        newTasks == SelectSeq(incomingTasks, LAMBDA t : t.id \notin existingIds)
    IN ts \o newTasks

(***************************************************************************)
(* AsyncStorage. A record is a string or missing; a string is the          *)
(* JSON.stringify of a value, or text JSON.parse throws on.                *)
(***************************************************************************)
Missing(v) ==
    [present |-> FALSE, json |-> FALSE, rejects |-> FALSE, val |-> v]

JsonStringify(v) ==
    [present |-> TRUE, json |-> TRUE, rejects |-> FALSE, val |-> v]

Corrupt(v) ==
    [present |-> TRUE, json |-> FALSE, rejects |-> FALSE, val |-> v]

\* a record AsyncStorage cannot hand out: getItem on its key rejects
Unreadable(v) ==
    [present |-> TRUE, json |-> TRUE, rejects |-> TRUE, val |-> v]

\* await AsyncStorage.getItem(key) throws
ReadRejects(r) == r.rejects

\* JSON.parse(r) throws a SyntaxError
ParseThrows(r) == r.present /\ ~r.json

JsonParse(r) == r.val

\* a storage operation in flight
Op(kind, key, cont, tv, sv) ==
    [kind |-> kind, key |-> key, cont |-> cont, tasksVal |-> tv,
     settingsVal |-> sv]

\* saveTasks(tasks): setItem is issued with the list as it is at the call
saveTasks(ts) == Op("setItem", "tasks", "none", ts, EmptyPartial)

\* saveSettingsToStorage(partial) up to its first await: getItem is issued
saveSettingsToStorage(partial) ==
    Op("getItem", "settings", "saveSettings", <<>>, partial)

SpreadMerge_PartialOnly(current, partial) == partial

\* { ...current, ...partial }
SpreadMerge(current, partial) ==
    [themeMode |-> IF partial.themeMode # Undefined THEN partial.themeMode
                   ELSE current.themeMode,
     subjectsIsArray |-> partial.subjectsIsArray \/ current.subjectsIsArray,
     subjects |-> IF partial.subjectsIsArray THEN partial.subjects
                  ELSE current.subjects,
     notificationTime |->
        IF partial.notificationTime # Undefined THEN partial.notificationTime
        ELSE current.notificationTime]

loadSettingsFromStorage_DefaultSubjects(r) ==
    IF ReadRejects(r) \/ ParseThrows(r) THEN defaultState
    ELSE LET parsed == IF r.present THEN JsonParse(r) ELSE EmptyPartial
         IN [themeMode |-> IF parsed.themeMode \in {Undefined, Null}
                           THEN defaultState.themeMode ELSE parsed.themeMode,
             subjects |-> defaultState.subjects,
             notificationTime |->
                IF IsString(parsed.notificationTime)
                THEN parsed.notificationTime
                ELSE defaultState.notificationTime]

\* loadSettingsFromStorage() applied to the stored record
loadSettingsFromStorage(r) ==
    IF ReadRejects(r) \/ ParseThrows(r) THEN defaultState
    ELSE LET parsed == IF r.present THEN JsonParse(r) ELSE EmptyPartial
         IN [themeMode |-> IF parsed.themeMode \in {Undefined, Null}
                           THEN defaultState.themeMode ELSE parsed.themeMode,
             subjects |-> IF parsed.subjectsIsArray THEN parsed.subjects
                          ELSE defaultState.subjects,
             notificationTime |->
                IF IsString(parsed.notificationTime)
                THEN parsed.notificationTime
                ELSE defaultState.notificationTime]

(***************************************************************************)
(* Inputs of the model.                                                    *)
(***************************************************************************)
\* the parsed content of a picked file
File(isJson, tasksIsArray, ts, settingsIsObject, sett) ==
    [isJson |-> isJson, tasksIsArray |-> tasksIsArray, tasks |-> ts,
     settingsIsObject |-> settingsIsObject, settings |-> sett]

NoFile == File(FALSE, FALSE, <<>>, FALSE, EmptyPartial)

\* history record of the operation that produced a state: its kind, the
\* identifier it was given, the file or payload it was given, and the kind
\* of the last user event that dispatched to the store
Act(kind, id, file) ==
    [kind |-> kind, id |-> id, file |-> file, user |-> kind]

\* history record of a step that is no dispatching user event
Sys(kind, last) ==
    [kind |-> kind, id |-> "", file |-> NoFile, user |-> last.user]

Alert(visible, type, n) == [visible |-> visible, type |-> type, n |-> n]

\* what TaskInputModal submits: trimmed title, subject, priority, and the
\* selected day as createdAt
TaskInputs ==
    {[text |-> "Read", subject |-> "Physics", priority |-> "Medium",
      createdAt |-> "2025-07-11"],
     [text |-> "Solve", subject |-> "Math", priority |-> "High",
      createdAt |-> "2025-07-12"]}

\* a task written to storage by an earlier run of the application
StoredTask ==
    Task("s1", "Revise", "Chemistry", "Low", FALSE, "2025-07-10", Null)

\* tasks a backup file may hold: one the device never saw, one lacking a
\* required string field, and copies of known identifiers with other fields
ForeignTask == Task("f1", "Essay", "History", "Low", TRUE, "2025-07-09", Now)

BadTask == Task("f2", Undefined, "History", "Low", FALSE, "2025-07-09", Null)

StoredCopy == Task("s1", "Changed", "Math", "High", TRUE, "2025-07-10", Now)

AddedCopy == Task("u1", "Changed", "Math", "High", FALSE, "2025-07-11", Null)

BackupTaskLists ==
    {<<>>, <<ForeignTask>>, <<BadTask>>, <<StoredCopy>>, <<AddedCopy>>,
     <<ForeignTask, ForeignTask>>, <<BadTask, ForeignTask>>,
     <<StoredCopy, ForeignTask>>}

BackupSettings ==
    {EmptyPartial,
     Partial("dark", TRUE, <<"Physics", "Biology">>, "07:00")}

BackupFiles ==
    {File(FALSE, FALSE, <<>>, FALSE, EmptyPartial),
     File(TRUE, FALSE, <<>>, TRUE, EmptyPartial),
     File(TRUE, TRUE, <<ForeignTask>>, FALSE, EmptyPartial),
     File(TRUE, TRUE, <<ForeignTask>>, TRUE,
          Partial("blue", FALSE, <<>>, Null))}
    \cup {File(TRUE, TRUE, ts, TRUE, sett) :
            ts \in BackupTaskLists, sett \in BackupSettings}

StoredTasksAtStart ==
    {Missing(<<>>), Corrupt(<<>>), JsonStringify(<<StoredTask>>)}

StoredSettingsAtStart ==
    {Missing(EmptyPartial), Corrupt(EmptyPartial),
     JsonStringify(Partial("dark", TRUE, <<"Physics", "Biology">>, "08:00")),
     JsonStringify(Partial("light", FALSE, <<>>, Undefined))}

(***************************************************************************)
(* TodoScreen's local state. Days are "YYYY-MM-DD" strings, as            *)
(* dayjs().format gives them.                                              *)
(***************************************************************************)
Today == "2025-07-11"

\* useState initial values of selectedDate and the three filters
InitialFilters ==
    [selectedDate |-> Today, filterPriority |-> "All",
     filterSubject |-> "All", filterStatus |-> "All"]

\* subjects[0] || ""
FirstOrEmpty(subjects) == IF Len(subjects) > 0 THEN subjects[1] ELSE ""

\* useState initial values of the task modal and of the alert; openedBy
\* and openedId are history: the button that opened the modal last and the
\* identifier of the task it was opened on
InitialForm(subjects) ==
    [modalVisible |-> FALSE, title |-> "", subject |-> FirstOrEmpty(subjects),
     priority |-> "Medium", isEditing |-> FALSE, editId |-> Null,
     alertVisible |-> FALSE, openedBy |-> "none", openedId |-> Null]

\* dayjs(createdAt) taken to its day: a date-only string is that day, the
\* one full timestamp of the model falls on the day it names
DayOf(createdAt) == IF createdAt = Now THEN "2025-07-11" ELSE createdAt

\* TodoScreen's filteredTasks
filteredTasks(ts, f) ==
    SelectSeq(ts, LAMBDA task :
        LET isSameDate == DayOf(task.createdAt) = f.selectedDate
            matchPriority == f.filterPriority = "All"
                                \/ task.priority = f.filterPriority
            matchSubject == f.filterSubject = "All"
                                \/ task.subject = f.filterSubject
            matchStatus == \/ f.filterStatus = "All"
                           \/ (f.filterStatus = "Completed" /\ task.completed)
                           \/ (f.filterStatus = "Pending" /\ ~task.completed)
        IN isSameDate /\ matchPriority /\ matchSubject /\ matchStatus)

\* TodoScreen's hasTasksForSelectedDate
hasTasksForSelectedDate(ts, f) ==
    \E i \in 1..Len(ts) : DayOf(ts[i].createdAt) = f.selectedDate

(***************************************************************************)
(* InlineWeekCalendar's state. A day is its number counted from a Monday   *)
(* (day 0); a week is the array of its seven days.                         *)
(***************************************************************************)
\* dayjs(): a Thursday
TodayDay == 3

\* d.startOf("isoWeek")
StartOfIsoWeek(d) == d - (d % 7)

\* Array.from({ length: 7 }, (_, j) => start.add(j, "day"))
Week(start) == [j \in 1..7 |-> start + (j - 1)]

\* the mount effect's tempWeeks: the weeks -2 .. +2 around today's
InitialWeeks ==
    [i \in 1..5 |-> Week(StartOfIsoWeek(TodayDay) + (i - 3) * 7)]

\* after the mount effect and its scrollToIndex(todayIndex): weeks, the
\* currentIndex state, the page the list shows and the page the last
\* scroll ended at (indices count from 0)
InitialCalendar ==
    [weeks |-> InitialWeeks, currentIndex |-> 2, visible |-> 2,
     scrolledTo |-> 2]

(***************************************************************************)
(* Start: Layout's effect has called bootstrapApp(), which awaits the      *)
(* settings read.                                                          *)
(***************************************************************************)
Init ==
    /\ tasks = <<>>
    /\ settings = defaultState
    /\ stTasks \in StoredTasksAtStart
    /\ stSettings \in StoredSettingsAtStart
    /\ queue = <<Op("getItem", "settings", "bootSettings", <<>>, EmptyPartial)>>
    /\ isReady = FALSE
    /\ mounted = FALSE
    /\ nextUuid = 1
    /\ importPc = "idle"
    /\ currentTasks = <<>>
    /\ alert = Alert(FALSE, "success", 0)
    /\ lastAct = Act("init", "", NoFile)
    /\ ops = 0
    /\ exported = NoFile
    /\ modalVisible = FALSE
    /\ successVisible = FALSE
    /\ filters = InitialFilters
    /\ form = InitialForm(settings.subjects)
    /\ calendar = InitialCalendar

\* Layout renders the Provider once isReady, and AppContent its Slot unless
\* the notification time is undefined
AppContentRendered ==
    /\ isReady
    /\ settings.notificationTime # Undefined

(***************************************************************************)
(* Completion of the storage operation at the head of the queue, with the  *)
(* continuation that awaits it.                                            *)
(***************************************************************************)
HeadIs(kind, key, cont) ==
    /\ queue # <<>>
    /\ Head(queue).kind = kind
    /\ Head(queue).key = key
    /\ Head(queue).cont = cont

BootSettingsLoaded_NoCatch ==
    /\ HeadIs("getItem", "settings", "bootSettings")
    /\ settings' = IF ReadRejects(stSettings) \/ ParseThrows(stSettings)
                   THEN settings
                   ELSE loadSettings(settings,
                            FullPartial(loadSettingsFromStorage(stSettings)))
    /\ queue' = IF ReadRejects(stSettings) \/ ParseThrows(stSettings)
                THEN Tail(queue)
                ELSE Append(Tail(queue),
                       Op("getItem", "tasks", "bootTasks", <<>>, EmptyPartial))
    /\ isReady' = (ReadRejects(stSettings) \/ ParseThrows(stSettings))
    /\ lastAct' = Sys("loadSettings", lastAct)
    /\ UNCHANGED <<tasks, stTasks, stSettings, mounted, nextUuid,
                   importPc, currentTasks, alert, ops>>
    /\ UNCHANGED <<exported, modalVisible, successVisible>>
    /\ UNCHANGED todoUi

\* bootstrapApp: loadSettingsFromStorage resolved; loadSettings is
\* dispatched, then loadTasksFromStorage is dispatched and awaited
BootSettingsLoaded ==
    /\ HeadIs("getItem", "settings", "bootSettings")
    /\ settings' = loadSettings(settings,
                        FullPartial(loadSettingsFromStorage(stSettings)))
    /\ queue' = Append(Tail(queue),
                       Op("getItem", "tasks", "bootTasks", <<>>, EmptyPartial))
    /\ lastAct' = Sys("loadSettings", lastAct)
    /\ UNCHANGED <<tasks, stTasks, stSettings, isReady, mounted, nextUuid,
                   importPc, currentTasks, alert, ops>>
    /\ UNCHANGED <<exported, modalVisible, successVisible>>
    /\ UNCHANGED todoUi

\* loadTasksFromStorage: the payload creator's result and the reducer for
\* loadTasksFromStorage.fulfilled; a rejected thunk changes nothing
loadTasksFulfilled(ts, r) ==
    IF ReadRejects(r) \/ ParseThrows(r) THEN ts
    ELSE IF r.present THEN JsonParse(r) ELSE <<>>

BootTasksLoaded_Blocks ==
    /\ HeadIs("getItem", "tasks", "bootTasks")
    /\ ~(ReadRejects(stTasks) \/ ParseThrows(stTasks))
    /\ tasks' = loadTasksFulfilled(tasks, stTasks)
    /\ queue' = Tail(queue)
    /\ isReady' = TRUE
    /\ lastAct' = Sys("loadTasks", lastAct)
    /\ UNCHANGED <<settings, stTasks, stSettings, mounted, nextUuid,
                   importPc, currentTasks, alert, ops>>
    /\ UNCHANGED <<exported, modalVisible, successVisible>>
    /\ UNCHANGED todoUi

\* bootstrapApp's awaited loadTasksFromStorage settled; then setIsReady(true)
BootTasksLoaded ==
    /\ HeadIs("getItem", "tasks", "bootTasks")
    /\ tasks' = loadTasksFulfilled(tasks, stTasks)
    /\ queue' = Tail(queue)
    /\ isReady' = TRUE
    /\ lastAct' = Sys("loadTasks", lastAct)
    /\ UNCHANGED <<settings, stTasks, stSettings, mounted, nextUuid,
                   importPc, currentTasks, alert, ops>>
    /\ UNCHANGED <<exported, modalVisible, successVisible>>
    /\ UNCHANGED todoUi

\* TodoScreen's mount effect: dispatch(loadTasksFromStorage())
TodoScreenMount ==
    /\ isReady
    /\ ~mounted
    /\ mounted' = TRUE
    /\ queue' = Append(queue,
                       Op("getItem", "tasks", "mountTasks", <<>>, EmptyPartial))
    /\ lastAct' = Sys("mount", lastAct)
    /\ filters' = InitialFilters
    /\ form' = InitialForm(settings.subjects)
    /\ calendar' = InitialCalendar
    /\ UNCHANGED <<tasks, settings, stTasks, stSettings, isReady, nextUuid,
                   importPc, currentTasks, alert, ops>>
    /\ UNCHANGED <<exported, modalVisible, successVisible>>

\* the loadTasksFromStorage dispatched at mount settled
MountTasksLoaded ==
    /\ HeadIs("getItem", "tasks", "mountTasks")
    /\ tasks' = loadTasksFulfilled(tasks, stTasks)
    /\ queue' = Tail(queue)
    /\ lastAct' = Sys("loadTasks", lastAct)
    /\ UNCHANGED <<settings, stTasks, stSettings, isReady, mounted, nextUuid,
                   importPc, currentTasks, alert, ops>>
    /\ UNCHANGED <<exported, modalVisible, successVisible>>
    /\ UNCHANGED todoUi

\* saveSettingsToStorage after its getItem: merge and issue setItem; a
\* read that rejects or a stored record that does not parse is caught and
\* nothing is written
SaveSettingsRead ==
    /\ HeadIs("getItem", "settings", "saveSettings")
    /\ queue' =
         IF ReadRejects(stSettings) \/ ParseThrows(stSettings)
         THEN Tail(queue)
         ELSE Append(Tail(queue),
                Op("setItem", "settings", "none", <<>>,
                   SpreadMerge(IF stSettings.present THEN JsonParse(stSettings)
                               ELSE EmptyPartial,
                               Head(queue).settingsVal)))
    /\ lastAct' = Sys("storage", lastAct)
    /\ UNCHANGED <<tasks, settings, stTasks, stSettings, isReady, mounted,
                   nextUuid, importPc, currentTasks, alert, ops>>
    /\ UNCHANGED <<exported, modalVisible, successVisible>>
    /\ UNCHANGED todoUi

SetItemDone ==
    /\ queue # <<>>
    /\ Head(queue).kind = "setItem"
    /\ stTasks' = IF Head(queue).key = "tasks"
                  THEN JsonStringify(Head(queue).tasksVal) ELSE stTasks
    /\ stSettings' = IF Head(queue).key = "settings"
                     THEN JsonStringify(Head(queue).settingsVal) ELSE stSettings
    /\ queue' = Tail(queue)
    /\ lastAct' = Sys("storage", lastAct)
    /\ UNCHANGED <<tasks, settings, isReady, mounted, nextUuid, importPc,
                   currentTasks, alert, ops>>
    /\ UNCHANGED <<exported, modalVisible, successVisible>>
    /\ UNCHANGED todoUi

RemoveItemDone ==
    /\ queue # <<>>
    /\ Head(queue).kind = "removeItem"
    /\ stTasks' = IF Head(queue).key = "tasks" THEN Missing(<<>>) ELSE stTasks
    /\ stSettings' = IF Head(queue).key = "settings"
                     THEN Missing(EmptyPartial) ELSE stSettings
    /\ queue' = Tail(queue)
    /\ lastAct' = Sys("storage", lastAct)
    /\ UNCHANGED <<tasks, settings, isReady, mounted, nextUuid, importPc,
                   currentTasks, alert, ops>>
    /\ UNCHANGED <<exported, modalVisible, successVisible>>
    /\ UNCHANGED todoUi

(***************************************************************************)
(* User events. The screens exist once TodoScreen has mounted; the         *)
(* document picker and an open alert modal cover them.                     *)
(***************************************************************************)
CanAct ==
    /\ mounted
    /\ importPc = "idle"
    /\ ~alert.visible
    /\ ~modalVisible
    /\ ~successVisible
    /\ ops < MaxOps

\* TodoScreen.handleAddTask, add branch: dispatch(addTask(...))
HandleAddTask(p) ==
    /\ CanAct
    /\ nextUuid <= Len(UuidPool)
    /\ tasks' = addTask(tasks, UuidPool[nextUuid], p)
    /\ nextUuid' = nextUuid + 1
    /\ queue' = Append(queue, saveTasks(tasks'))
    /\ lastAct' = Act("addTask", UuidPool[nextUuid], NoFile)
    /\ ops' = ops + 1
    /\ UNCHANGED <<settings, stTasks, stSettings, isReady, mounted, importPc,
                   currentTasks, alert>>
    /\ UNCHANGED <<exported, modalVisible, successVisible>>
    /\ UNCHANGED todoUi

\* the payload the edit branch builds: the reducer's four keys, and
\* completed: false and createdAt: selectedDate besides
EditPayload(id, p) ==
    [id |-> id, text |-> p.text, subject |-> p.subject,
     priority |-> p.priority, completed |-> FALSE, createdAt |-> p.createdAt]

\* TodoScreen.handleAddTask, edit branch, for a task opened by swipe-to-edit
HandleEditTask(id, p) ==
    /\ CanAct
    /\ HasId(tasks, id)
    /\ tasks' = editTask(tasks, EditPayload(id, p))
    /\ queue' = Append(queue, saveTasks(tasks'))
    /\ lastAct' = Act("editTask", id, NoFile)
    /\ ops' = ops + 1
    /\ UNCHANGED <<settings, stTasks, stSettings, isReady, mounted, nextUuid,
                   importPc, currentTasks, alert>>
    /\ UNCHANGED <<exported, modalVisible, successVisible>>
    /\ UNCHANGED todoUi

\* TaskItem.handleToggleTask
HandleToggleTask(id) ==
    /\ CanAct
    /\ HasId(tasks, id)
    /\ tasks' = toggleTask(tasks, id)
    /\ queue' = Append(queue, saveTasks(tasks'))
    /\ lastAct' = Act("toggleTask", id, NoFile)
    /\ ops' = ops + 1
    /\ UNCHANGED <<settings, stTasks, stSettings, isReady, mounted, nextUuid,
                   importPc, currentTasks, alert>>
    /\ UNCHANGED <<exported, modalVisible, successVisible>>
    /\ UNCHANGED todoUi

\* TaskItem.handleDelete
HandleDelete(id) ==
    /\ CanAct
    /\ HasId(tasks, id)
    /\ tasks' = deleteTask(tasks, id)
    /\ queue' = Append(queue, saveTasks(tasks'))
    /\ lastAct' = Act("deleteTask", id, NoFile)
    /\ ops' = ops + 1
    /\ UNCHANGED <<settings, stTasks, stSettings, isReady, mounted, nextUuid,
                   importPc, currentTasks, alert>>
    /\ UNCHANGED <<exported, modalVisible, successVisible>>
    /\ UNCHANGED todoUi

\* DeleteAllButton.handleDelete: the warning modal opens
HandleDeletePress ==
    /\ CanAct
    /\ modalVisible' = TRUE
    /\ lastAct' = Sys("deletePress", lastAct)
    /\ ops' = ops + 1
    /\ UNCHANGED <<tasks, settings, stTasks, stSettings, queue, isReady,
                   mounted, nextUuid, importPc, currentTasks, alert>>
    /\ UNCHANGED <<exported, successVisible>>
    /\ UNCHANGED todoUi

\* the warning modal's Cancel button or a tap outside it: onClose
DeleteModalClose ==
    /\ modalVisible
    /\ modalVisible' = FALSE
    /\ lastAct' = Sys("deleteCancel", lastAct)
    /\ UNCHANGED <<tasks, settings, stTasks, stSettings, queue, isReady,
                   mounted, nextUuid, importPc, currentTasks, alert, ops>>
    /\ UNCHANGED <<exported, successVisible>>
    /\ UNCHANGED todoUi

ConfirmDelete_Unasked ==
    /\ CanAct \/ modalVisible
    /\ tasks' = <<>>
    /\ settings' = clearSettings(settings)
    /\ queue' = queue \o
                  <<Op("removeItem", "tasks", "none", <<>>, EmptyPartial),
                    Op("removeItem", "settings", "none", <<>>, EmptyPartial)>>
    /\ modalVisible' = FALSE
    /\ successVisible' = TRUE
    /\ lastAct' = Act("clearAll", "", NoFile)
    /\ UNCHANGED <<stTasks, stSettings, isReady, mounted, nextUuid, importPc,
                   currentTasks, alert, ops, exported>>
    /\ UNCHANGED todoUi

\* DeleteAllButton.confirmDelete, the warning modal's Delete button:
\* clearTasks, then clearSettings, then the success modal replaces the
\* warning
ConfirmDelete ==
    /\ modalVisible
    /\ tasks' = <<>>
    /\ settings' = clearSettings(settings)
    /\ queue' = queue \o
                  <<Op("removeItem", "tasks", "none", <<>>, EmptyPartial),
                    Op("removeItem", "settings", "none", <<>>, EmptyPartial)>>
    /\ modalVisible' = FALSE
    /\ successVisible' = TRUE
    /\ lastAct' = Act("clearAll", "", NoFile)
    /\ UNCHANGED <<stTasks, stSettings, isReady, mounted, nextUuid, importPc,
                   currentTasks, alert, ops, exported>>
    /\ UNCHANGED todoUi

\* the 'Data Deleted' modal's OK button: onClose
DeleteSuccessClose ==
    /\ successVisible
    /\ successVisible' = FALSE
    /\ lastAct' = Sys("deletedClose", lastAct)
    /\ UNCHANGED <<tasks, settings, stTasks, stSettings, queue, isReady,
                   mounted, nextUuid, importPc, currentTasks, alert, ops>>
    /\ UNCHANGED <<exported, modalVisible>>
    /\ UNCHANGED todoUi

\* ImportButton.handleImport up to its first await; the handler closes over
\* the task list of the render in which the button was pressed
ImportPress ==
    /\ CanAct
    /\ importPc' = "picking"
    /\ currentTasks' = tasks
    /\ lastAct' = Sys("importPress", lastAct)
    /\ ops' = ops + 1
    /\ UNCHANGED <<tasks, settings, stTasks, stSettings, queue, isReady,
                   mounted, nextUuid, alert>>
    /\ UNCHANGED <<exported, modalVisible, successVisible>>
    /\ UNCHANGED todoUi

\* the picker was cancelled: handleImport returns
ImportCancel ==
    /\ importPc = "picking"
    /\ importPc' = "idle"
    /\ lastAct' = Sys("importCancel", lastAct)
    /\ UNCHANGED <<tasks, settings, stTasks, stSettings, queue, isReady,
                   mounted, nextUuid, currentTasks, alert, ops>>
    /\ UNCHANGED <<exported, modalVisible, successVisible>>
    /\ UNCHANGED todoUi

\* handleImport's structure checks: JSON.parse, 'tasks' array, 'settings'
\* non-null object
ImportThrows_NoSettingsCheck(file) ==
    \/ ~file.isJson
    \/ ~file.tasksIsArray

ImportThrows(file) ==
    \/ ~file.isJson
    \/ ~file.tasksIsArray
    \/ ~file.settingsIsObject

\* handleImport's validTasks
ImportValidTasks_All(file) == file.tasks

ImportValidTasks(file) == SelectSeq(file.tasks, IsValidTask)

\* handleImport's newTasks: the valid tasks whose id the captured list lacks
ImportNewTasks(file, captured) ==
    SelectSeq(ImportValidTasks(file), LAMBDA t : t.id \notin Ids(captured))

\* a handleImport that merges the backup's settings before it looks for
\* new tasks
ImportFinish_SettingsFirst(file) ==
    /\ importPc = "picking"
    /\ importPc' = "idle"
    /\ lastAct' = Act("importFinish", "", file)
    /\ IF ImportThrows(file)
       THEN /\ alert' = Alert(TRUE, "error", 0)
            /\ UNCHANGED <<tasks, settings, queue>>
       ELSE /\ settings' = mergeSettings(settings, file.settings)
            /\ IF Len(ImportNewTasks(file, currentTasks)) = 0
               THEN /\ alert' = Alert(TRUE, "warning", 0)
                    /\ queue' = Append(queue,
                         saveSettingsToStorage(FullPartial(settings')))
                    /\ UNCHANGED tasks
               ELSE /\ tasks' = mergeTasks(tasks, ImportValidTasks(file))
                    /\ queue' = queue \o
                         <<saveTasks(tasks'),
                           saveSettingsToStorage(FullPartial(settings'))>>
                    /\ alert' = Alert(TRUE, "success",
                                      Len(ImportNewTasks(file, currentTasks)))
    /\ UNCHANGED <<stTasks, stSettings, isReady, mounted, nextUuid,
                   currentTasks, ops>>
    /\ UNCHANGED <<exported, modalVisible, successVisible>>
    /\ UNCHANGED todoUi

\* handleImport after the file was read
ImportFinish(file) ==
    /\ importPc = "picking"
    /\ importPc' = "idle"
    /\ lastAct' = Act("importFinish", "", file)
    /\ IF ImportThrows(file)
       THEN /\ alert' = Alert(TRUE, "error", 0)
            /\ UNCHANGED <<tasks, settings, queue>>
       ELSE IF Len(ImportNewTasks(file, currentTasks)) = 0
       THEN /\ alert' = Alert(TRUE, "warning", 0)
            /\ UNCHANGED <<tasks, settings, queue>>
       ELSE /\ tasks' = mergeTasks(tasks, ImportValidTasks(file))
            /\ settings' = mergeSettings(settings, file.settings)
            /\ queue' = queue \o
                 <<saveTasks(tasks'),
                   saveSettingsToStorage(FullPartial(settings'))>>
            /\ alert' = Alert(TRUE, "success",
                              Len(ImportNewTasks(file, currentTasks)))
    /\ UNCHANGED <<stTasks, stSettings, isReady, mounted, nextUuid,
                   currentTasks, ops>>
    /\ UNCHANGED <<exported, modalVisible, successVisible>>
    /\ UNCHANGED todoUi

\* AlertModal's OK button: onClose
AlertClose ==
    /\ alert.visible
    /\ alert' = [alert EXCEPT !.visible = FALSE]
    /\ lastAct' = Sys("alertClose", lastAct)
    /\ UNCHANGED <<tasks, settings, stTasks, stSettings, queue, isReady,
                   mounted, nextUuid, importPc, currentTasks, ops>>
    /\ UNCHANGED <<exported, modalVisible, successVisible>>
    /\ UNCHANGED todoUi

\* ThemeDropdown: dispatch(setThemeMode(value)); the reducer persists the key
ThemeSelect(mode) ==
    /\ CanAct
    /\ settings' = setThemeMode(settings, mode)
    /\ queue' = Append(queue, saveSettingsToStorage(
                           Partial(mode, FALSE, <<>>, Undefined)))
    /\ lastAct' = Act("setThemeMode", mode, NoFile)
    /\ ops' = ops + 1
    /\ UNCHANGED <<tasks, stTasks, stSettings, isReady, mounted, nextUuid,
                   importPc, currentTasks, alert>>
    /\ UNCHANGED <<exported, modalVisible, successVisible>>
    /\ UNCHANGED todoUi

\* SubjectManager.handleAdd with a trimmed, non-empty label the list lacks
SubjectAdd(label) ==
    /\ CanAct
    /\ ~Includes(settings.subjects, label)
    /\ settings' = addSubject(settings, label)
    /\ queue' = IF settings' # settings
                THEN Append(queue, saveSettingsToStorage(
                         Partial(Undefined, TRUE, settings'.subjects, Undefined)))
                ELSE queue
    /\ lastAct' = Act("addSubject", label, NoFile)
    /\ ops' = ops + 1
    /\ UNCHANGED <<tasks, stTasks, stSettings, isReady, mounted, nextUuid,
                   importPc, currentTasks, alert>>
    /\ UNCHANGED <<exported, modalVisible, successVisible>>
    /\ UNCHANGED todoUi

\* SubjectManager.handleDelete on a chip of the list
SubjectDelete(label) ==
    /\ CanAct
    /\ Includes(settings.subjects, label)
    /\ settings' = deleteSubject(settings, label)
    /\ queue' = Append(queue, saveSettingsToStorage(
                         Partial(Undefined, TRUE, settings'.subjects, Undefined)))
    /\ lastAct' = Act("deleteSubject", label, NoFile)
    /\ ops' = ops + 1
    /\ UNCHANGED <<tasks, stTasks, stSettings, isReady, mounted, nextUuid,
                   importPc, currentTasks, alert>>
    /\ UNCHANGED <<exported, modalVisible, successVisible>>
    /\ UNCHANGED todoUi

\* NotificationTimeSelector.handleConfirm: dispatch(setNotificationTime("HH:MM"))
NotificationConfirm(time) ==
    /\ CanAct
    /\ settings' = setNotificationTime(settings, time)
    /\ queue' = Append(queue, saveSettingsToStorage(
                         Partial(Undefined, FALSE, <<>>, time)))
    /\ lastAct' = Act("setNotificationTime", time, NoFile)
    /\ ops' = ops + 1
    /\ UNCHANGED <<tasks, stTasks, stSettings, isReady, mounted, nextUuid,
                   importPc, currentTasks, alert>>
    /\ UNCHANGED <<exported, modalVisible, successVisible>>
    /\ UNCHANGED todoUi

StorageStep ==
    \/ BootSettingsLoaded
    \/ BootTasksLoaded
    \/ MountTasksLoaded
    \/ SaveSettingsRead
    \/ SetItemDone
    \/ RemoveItemDone

Next ==
    \/ StorageStep
    \/ TodoScreenMount
    \/ \E p \in TaskInputs : HandleAddTask(p)
    \/ \E id \in Ids(tasks), p \in TaskInputs : HandleEditTask(id, p)
    \/ \E id \in Ids(tasks) : HandleToggleTask(id)
    \/ \E id \in Ids(tasks) : HandleDelete(id)
    \/ HandleDeletePress
    \/ DeleteModalClose
    \/ ConfirmDelete
    \/ DeleteSuccessClose
    \/ ImportPress
    \/ ImportCancel
    \/ \E file \in BackupFiles : ImportFinish(file)
    \/ AlertClose

Spec == Init /\ [][Next]_vars

(***************************************************************************)
(* Startup on every condition of the two stored records, the ones whose    *)
(* read rejects included, and the first use of the task screen. Every      *)
(* storage operation issued settles, so bootstrapApp's two awaits end.     *)
(***************************************************************************)
InitStartup ==
    /\ tasks = <<>>
    /\ settings = defaultState
    /\ stTasks \in StoredTasksAtStart \cup {Unreadable(<<StoredTask>>)}
    /\ stSettings \in StoredSettingsAtStart \cup
          {Unreadable(Partial("dark", TRUE, <<"Physics", "Biology">>, "08:00"))}
    /\ queue = <<Op("getItem", "settings", "bootSettings", <<>>, EmptyPartial)>>
    /\ isReady = FALSE
    /\ mounted = FALSE
    /\ nextUuid = 1
    /\ importPc = "idle"
    /\ currentTasks = <<>>
    /\ alert = Alert(FALSE, "success", 0)
    /\ lastAct = Act("init", "", NoFile)
    /\ ops = 0
    /\ exported = NoFile
    /\ modalVisible = FALSE
    /\ successVisible = FALSE
    /\ filters = InitialFilters
    /\ form = InitialForm(settings.subjects)
    /\ calendar = InitialCalendar

NextStartup ==
    \/ BootSettingsLoaded
    \/ BootTasksLoaded
    \/ TodoScreenMount
    \/ MountTasksLoaded
    \/ SetItemDone
    \/ \E p \in TaskInputs : HandleAddTask(p)
    \/ \E id \in Ids(tasks) : HandleToggleTask(id)

SpecStartup ==
    /\ InitStartup
    /\ [][NextStartup]_vars
    /\ WF_vars(BootSettingsLoaded)
    /\ WF_vars(BootTasksLoaded)

(***************************************************************************)
(* The settings screen at work. The start is the application once          *)
(* bootstrapApp and TodoScreen's load have completed on the stored         *)
(* records: both stores hydrated, no storage operation pending.            *)
(***************************************************************************)
ThemeModes == {"light", "dark", "system"}

SubjectLabels == {"Physics", "Math", "Biology"}

NotificationTimes == {"07:30"}

InitHydrated ==
    /\ stTasks \in StoredTasksAtStart
    /\ stSettings \in StoredSettingsAtStart
    /\ tasks = loadTasksFulfilled(<<>>, stTasks)
    /\ settings = loadSettings(defaultState,
                      FullPartial(loadSettingsFromStorage(stSettings)))
    /\ queue = <<>>
    /\ isReady = TRUE
    /\ mounted = TRUE
    /\ nextUuid = 1
    /\ importPc = "idle"
    /\ currentTasks = <<>>
    /\ alert = Alert(FALSE, "success", 0)
    /\ lastAct = Act("init", "", NoFile)
    /\ ops = 0
    /\ exported = NoFile
    /\ modalVisible = FALSE
    /\ successVisible = FALSE
    /\ filters = InitialFilters
    /\ form = InitialForm(settings.subjects)
    /\ calendar = InitialCalendar

NextSettings ==
    \/ SaveSettingsRead
    \/ SetItemDone
    \/ RemoveItemDone
    \/ \E mode \in ThemeModes : ThemeSelect(mode)
    \/ \E label \in SubjectLabels : SubjectAdd(label)
    \/ \E label \in SubjectLabels : SubjectDelete(label)
    \/ \E time \in NotificationTimes : NotificationConfirm(time)
    \/ HandleDeletePress
    \/ DeleteModalClose
    \/ ConfirmDelete
    \/ DeleteSuccessClose
    \/ ImportPress
    \/ ImportCancel
    \/ \E file \in BackupFiles : ImportFinish(file)
    \/ AlertClose

SpecSettings == InitHydrated /\ [][NextSettings]_vars

\* InitHydrated describes states the application reaches from its start
HydratedIsReached ==
    /\ isReady /\ mounted /\ queue = <<>> /\ ops = 0
    /\ tasks = loadTasksFulfilled(<<>>, stTasks)
    /\ settings = loadSettingsFromStorage(stSettings)

(***************************************************************************)
(* Backup and restore: the settings screen's Export, Delete All Data and   *)
(* Import buttons, the import reading the file the export wrote.           *)
(***************************************************************************)
\* ExportButton.handleExport: JSON.stringify({ tasks, settings }) is written
\* to braindesk_backup.json. Every field of a task and of the settings is a
\* string, a boolean or null, which JSON.parse gives back as they were.
HandleExport ==
    /\ CanAct
    /\ exported' = File(TRUE, TRUE, tasks, TRUE, FullPartial(settings))
    /\ lastAct' = Act("export", "", NoFile)
    /\ UNCHANGED <<tasks, settings, stTasks, stSettings, queue, isReady,
                   mounted, nextUuid, importPc, currentTasks, alert, ops>>
    /\ UNCHANGED <<modalVisible, successVisible>>
    /\ UNCHANGED todoUi

\* handleImport on the exported file
ImportExported ==
    /\ exported # NoFile
    /\ ImportFinish(exported)

NextBackup ==
    \/ SaveSettingsRead
    \/ SetItemDone
    \/ RemoveItemDone
    \/ \E p \in TaskInputs : HandleAddTask(p)
    \/ \E id \in Ids(tasks) : HandleToggleTask(id)
    \/ \E mode \in ThemeModes : ThemeSelect(mode)
    \/ \E label \in SubjectLabels : SubjectAdd(label)
    \/ \E label \in SubjectLabels : SubjectDelete(label)
    \/ HandleExport
    \/ HandleDeletePress
    \/ DeleteModalClose
    \/ ConfirmDelete
    \/ DeleteSuccessClose
    \/ ImportPress
    \/ ImportCancel
    \/ ImportExported
    \/ AlertClose

SpecBackup == InitHydrated /\ [][NextBackup]_vars

(***************************************************************************)
(* The task list of the selected day under the filter panel.               *)
(***************************************************************************)
\* the days of the calendar the user taps
Days == {"2025-07-10", "2025-07-11"}

\* InlineWeekCalendar.handleSelectDate: onSelectDate(date)
SelectDate(date) ==
    /\ mounted
    /\ filters' = [filters EXCEPT !.selectedDate = date]
    /\ lastAct' = Sys("selectDate", lastAct)
    /\ UNCHANGED <<tasks, settings, stTasks, stSettings, queue, isReady,
                   mounted, nextUuid, importPc, currentTasks, alert, ops>>
    /\ UNCHANGED <<exported, modalVisible, successVisible, form, calendar>>

\* FilterPanel, rendered when the day has tasks: a priority chip
SetFilterPriority(p) ==
    /\ mounted
    /\ hasTasksForSelectedDate(tasks, filters)
    /\ filters' = [filters EXCEPT !.filterPriority = p]
    /\ lastAct' = Sys("setFilterPriority", lastAct)
    /\ UNCHANGED <<tasks, settings, stTasks, stSettings, queue, isReady,
                   mounted, nextUuid, importPc, currentTasks, alert, ops>>
    /\ UNCHANGED <<exported, modalVisible, successVisible, form, calendar>>

\* FilterPanel: a chip of ["All", ...subjects]
SetFilterSubject(subject) ==
    /\ mounted
    /\ hasTasksForSelectedDate(tasks, filters)
    /\ subject = "All" \/ Includes(settings.subjects, subject)
    /\ filters' = [filters EXCEPT !.filterSubject = subject]
    /\ lastAct' = Sys("setFilterSubject", lastAct)
    /\ UNCHANGED <<tasks, settings, stTasks, stSettings, queue, isReady,
                   mounted, nextUuid, importPc, currentTasks, alert, ops>>
    /\ UNCHANGED <<exported, modalVisible, successVisible, form, calendar>>

\* FilterPanel: a status chip
SetFilterStatus(status) ==
    /\ mounted
    /\ hasTasksForSelectedDate(tasks, filters)
    /\ filters' = [filters EXCEPT !.filterStatus = status]
    /\ lastAct' = Sys("setFilterStatus", lastAct)
    /\ UNCHANGED <<tasks, settings, stTasks, stSettings, queue, isReady,
                   mounted, nextUuid, importPc, currentTasks, alert, ops>>
    /\ UNCHANGED <<exported, modalVisible, successVisible, form, calendar>>

PriorityChips == {"All", "High", "Medium", "Low"}

StatusChips == {"All", "Completed", "Pending"}

\* labels typed into the subject manager of the settings screen
TypedSubjects == {"All", "Biology"}

NextFilters ==
    \/ SaveSettingsRead
    \/ SetItemDone
    \/ \E p \in TaskInputs : HandleAddTask(p)
    \/ \E id \in Ids(tasks) : HandleToggleTask(id)
    \/ \E label \in TypedSubjects : SubjectAdd(label)
    \/ \E date \in Days : SelectDate(date)
    \/ \E p \in PriorityChips : SetFilterPriority(p)
    \/ \E subject \in {"All", "Physics", "Chemistry", "Math", "Biology"} :
          SetFilterSubject(subject)
    \/ \E status \in StatusChips : SetFilterStatus(status)

SpecFilters == InitHydrated /\ [][NextFilters]_vars

(***************************************************************************)
(* The task modal of the task screen.                                      *)
(***************************************************************************)
\* String.prototype.trim on the titles the model types
Trim(t) == IF t = "  " THEN "" ELSE t

TypedTitles == {"Read", "  "}

\* the task screen takes presses: no modal of its own is up
CanPress ==
    /\ mounted
    /\ ~form.modalVisible
    /\ ~form.alertVisible

\* TodoScreen.handleOpenModal, from the add button
HandleOpenModal ==
    /\ CanPress
    /\ form' = [form EXCEPT !.isEditing = FALSE, !.title = "",
                            !.subject = FirstOrEmpty(settings.subjects),
                            !.priority = "Medium", !.modalVisible = TRUE,
                            !.openedBy = "add", !.openedId = Null]
    /\ lastAct' = Sys("openModal", lastAct)
    /\ UNCHANGED <<tasks, settings, stTasks, stSettings, queue, isReady,
                   mounted, nextUuid, importPc, currentTasks, alert, ops>>
    /\ UNCHANGED <<exported, modalVisible, successVisible, filters,
                   calendar>>

\* TaskItem.handleEdit on a task of the list shown: TodoScreen.handleEditTask
HandleSwipeEdit(i) ==
    /\ CanPress
    /\ i \in 1..Len(filteredTasks(tasks, filters))
    /\ LET task == filteredTasks(tasks, filters)[i]
       IN form' = [form EXCEPT !.isEditing = TRUE, !.editId = task.id,
                               !.title = task.text, !.subject = task.subject,
                               !.priority = task.priority,
                               !.modalVisible = TRUE,
                               !.openedBy = "edit", !.openedId = task.id]
    /\ lastAct' = Sys("swipeEdit", lastAct)
    /\ UNCHANGED <<tasks, settings, stTasks, stSettings, queue, isReady,
                   mounted, nextUuid, importPc, currentTasks, alert, ops>>
    /\ UNCHANGED <<exported, modalVisible, successVisible, filters,
                   calendar>>

\* TodoScreen.handleCloseModal
CloseModal(f) ==
    [f EXCEPT !.modalVisible = FALSE, !.title = "", !.isEditing = FALSE,
              !.editId = Null]

\* TaskInputModal's Cancel button, a tap outside it or the back button
HandleCloseModal ==
    /\ form.modalVisible
    /\ ~form.alertVisible
    /\ form' = CloseModal(form)
    /\ lastAct' = Sys("closeModal", lastAct)
    /\ UNCHANGED <<tasks, settings, stTasks, stSettings, queue, isReady,
                   mounted, nextUuid, importPc, currentTasks, alert, ops>>
    /\ UNCHANGED <<exported, modalVisible, successVisible, filters,
                   calendar>>

\* TaskInputModal's title field: setTitle
SetTitle(t) ==
    /\ form.modalVisible
    /\ ~form.alertVisible
    /\ form' = [form EXCEPT !.title = t]
    /\ lastAct' = Sys("setTitle", lastAct)
    /\ UNCHANGED <<tasks, settings, stTasks, stSettings, queue, isReady,
                   mounted, nextUuid, importPc, currentTasks, alert, ops>>
    /\ UNCHANGED <<exported, modalVisible, successVisible, filters,
                   calendar>>

\* TodoScreen.handleAddTask's validation fails
SubmitInvalid(f) ==
    \/ Trim(f.title) = ""
    \/ f.subject = ""
    \/ f.priority = ""

\* TodoScreen.handleAddTask takes the edit branch
SubmitEdits(f) == f.isEditing /\ Truthy(f.editId)

\* TaskInputModal's Add/Update button: TodoScreen.handleAddTask
HandleSubmit ==
    /\ form.modalVisible
    /\ ~form.alertVisible
    /\ ops < MaxOps
    /\ nextUuid <= Len(UuidPool)
    /\ LET p == [text |-> Trim(form.title), subject |-> form.subject,
                 priority |-> form.priority,
                 createdAt |-> filters.selectedDate]
       IN IF SubmitInvalid(form)
          THEN /\ form' = [form EXCEPT !.alertVisible = TRUE]
               /\ lastAct' = Sys("submitInvalid", lastAct)
               /\ UNCHANGED <<tasks, queue, nextUuid, ops>>
          ELSE IF SubmitEdits(form)
          THEN /\ tasks' = editTask(tasks, EditPayload(form.editId, p))
               /\ queue' = IF HasId(tasks, form.editId)
                           THEN Append(queue, saveTasks(tasks'))
                           ELSE queue
               /\ form' = CloseModal(form)
               /\ lastAct' = Act("editTask", form.editId, NoFile)
               /\ ops' = ops + 1
               /\ UNCHANGED nextUuid
          ELSE /\ tasks' = addTask(tasks, UuidPool[nextUuid], p)
               /\ nextUuid' = nextUuid + 1
               /\ queue' = Append(queue, saveTasks(tasks'))
               /\ form' = CloseModal(form)
               /\ lastAct' = Act("addTask", UuidPool[nextUuid], NoFile)
               /\ ops' = ops + 1
    /\ UNCHANGED <<settings, stTasks, stSettings, isReady, mounted,
                   importPc, currentTasks, alert>>
    /\ UNCHANGED <<exported, modalVisible, successVisible, filters,
                   calendar>>

\* the Missing Information alert's OK button
FormAlertClose ==
    /\ form.alertVisible
    /\ form' = [form EXCEPT !.alertVisible = FALSE]
    /\ lastAct' = Sys("formAlertClose", lastAct)
    /\ UNCHANGED <<tasks, settings, stTasks, stSettings, queue, isReady,
                   mounted, nextUuid, importPc, currentTasks, alert, ops>>
    /\ UNCHANGED <<exported, modalVisible, successVisible, filters,
                   calendar>>

\* tasks of a backup file made by hand: both pass the import's check of
\* the required string fields, one with the empty string as identifier,
\* one with the empty string as subject
EmptyIdTask == Task("", "Essay", "History", "Low", FALSE, "2025-07-11", Null)

BlankSubjectTask == Task("f3", "Essay", "", "Low", FALSE, "2025-07-11", Null)

HandMadeBackup ==
    File(TRUE, TRUE, <<EmptyIdTask, BlankSubjectTask>>, TRUE, EmptyPartial)

NextTaskModal ==
    \/ SaveSettingsRead
    \/ SetItemDone
    \/ \E date \in Days : SelectDate(date)
    \/ HandleOpenModal
    \/ \E i \in 1..2 : HandleSwipeEdit(i)
    \/ HandleCloseModal
    \/ \E t \in TypedTitles : SetTitle(t)
    \/ HandleSubmit
    \/ FormAlertClose
    \/ ImportPress
    \/ ImportFinish(HandMadeBackup)
    \/ AlertClose

SpecTaskModal == InitHydrated /\ [][NextTaskModal]_vars

(***************************************************************************)
(* The week calendar of the task screen.                                   *)
(***************************************************************************)
\* loadMoreWeeks: the two weeks from first on
TwoWeeks(first) == <<Week(first), Week(first + 7)>>

\* loadMoreWeeks("left"): weeks[0][0].subtract(2, "week").startOf("isoWeek")
FirstOfLeft(weeks) == StartOfIsoWeek(weeks[1][1] - 14)

\* loadMoreWeeks("right"):
\* weeks[weeks.length - 1][0].add(1, "week").startOf("isoWeek")
FirstOfRight(weeks) == StartOfIsoWeek(weeks[Len(weeks)][1] + 7)

\* the index the timeout of loadMoreWeeks("left") scrolls to: currentIndex
\* is the value of the render the handler was created in
LeftScrollTarget(cal, index) == cal.currentIndex + 2

\* weeks.findIndex(week => week.some(d => d.isSame(today, "day"))),
\* counted from 0
TodayIndex(weeks) ==
    CHOOSE i \in 0..(Len(weeks) - 1) :
        \E j \in 1..7 : weeks[i + 1][j] = TodayDay

\* a swipe of the paged list ends on the page index:
\* InlineWeekCalendar.handleMomentumScrollEnd, loadMoreWeeks and its timeout
HandleMomentumScrollEnd(index) ==
    /\ mounted
    /\ ops < MaxOps
    /\ index \in 0..(Len(calendar.weeks) - 1)
    /\ index \in (calendar.visible - 1)..(calendar.visible + 1)
    /\ calendar' =
         IF index <= 1
         THEN [weeks |-> TwoWeeks(FirstOfLeft(calendar.weeks))
                           \o calendar.weeks,
               currentIndex |-> index + 2,
               visible |-> LeftScrollTarget(calendar, index),
               scrolledTo |-> index]
         ELSE IF index >= Len(calendar.weeks) - 2
         THEN [weeks |-> calendar.weeks
                           \o TwoWeeks(FirstOfRight(calendar.weeks)),
               currentIndex |-> index,
               visible |-> index,
               scrolledTo |-> index]
         ELSE [calendar EXCEPT !.currentIndex = index, !.visible = index,
                               !.scrolledTo = index]
    /\ lastAct' = Sys("scrollEnd", lastAct)
    /\ ops' = ops + 1
    /\ UNCHANGED <<tasks, settings, stTasks, stSettings, queue, isReady,
                   mounted, nextUuid, importPc, currentTasks, alert>>
    /\ UNCHANGED <<exported, modalVisible, successVisible, filters, form>>

\* the Today button: InlineWeekCalendar.scrollToToday
ScrollToToday ==
    /\ mounted
    /\ filters.selectedDate # Today
    /\ calendar' = [calendar EXCEPT !.visible = TodayIndex(calendar.weeks)]
    /\ filters' = [filters EXCEPT !.selectedDate = Today]
    /\ lastAct' = Sys("scrollToToday", lastAct)
    /\ UNCHANGED <<tasks, settings, stTasks, stSettings, queue, isReady,
                   mounted, nextUuid, importPc, currentTasks, alert, ops>>
    /\ UNCHANGED <<exported, modalVisible, successVisible, form>>

NextCalendar ==
    \/ \E date \in Days : SelectDate(date)
    \/ \E index \in 0..(Len(calendar.weeks) - 1) :
          HandleMomentumScrollEnd(index)
    \/ ScrollToToday

SpecCalendar == InitHydrated /\ [][NextCalendar]_vars

(***************************************************************************)
(* The stores on their own: every sequence of actions dispatched to a      *)
(* slice, with any payload, interleaved with the storage operations the    *)
(* reducers start.                                                         *)
(***************************************************************************)
CanDispatch == ops < MaxOps

\* store.dispatch(mergeTasks(payload))
DispatchMergeTasks(payload) ==
    /\ CanDispatch
    /\ tasks' = mergeTasks(tasks, payload)
    /\ queue' = Append(queue, saveTasks(tasks'))
    /\ lastAct' = Act("mergeTasks", "",
                      File(TRUE, TRUE, payload, TRUE, EmptyPartial))
    /\ ops' = ops + 1
    /\ UNCHANGED <<settings, stTasks, stSettings, isReady, mounted, nextUuid,
                   importPc, currentTasks, alert>>
    /\ UNCHANGED <<exported, modalVisible, successVisible>>
    /\ UNCHANGED todoUi

\* store.dispatch(clearTasks())
DispatchClearTasks ==
    /\ CanDispatch
    /\ tasks' = <<>>
    /\ queue' = Append(queue,
                       Op("removeItem", "tasks", "none", <<>>, EmptyPartial))
    /\ lastAct' = Act("clearTasks", "", NoFile)
    /\ ops' = ops + 1
    /\ UNCHANGED <<settings, stTasks, stSettings, isReady, mounted, nextUuid,
                   importPc, currentTasks, alert>>
    /\ UNCHANGED <<exported, modalVisible, successVisible>>
    /\ UNCHANGED todoUi

\* identifiers a dispatched action may carry: of the stored task, of the
\* first task added, and one no task has
TaskIdPayloads == {"s1", "u1", "none"}

\* store.dispatch(toggleTask(id))
DispatchToggleTask(id) ==
    /\ CanDispatch
    /\ tasks' = toggleTask(tasks, id)
    /\ queue' = IF HasId(tasks, id) THEN Append(queue, saveTasks(tasks'))
                ELSE queue
    /\ lastAct' = Act("toggleTask", id, NoFile)
    /\ ops' = ops + 1
    /\ UNCHANGED <<settings, stTasks, stSettings, isReady, mounted, nextUuid,
                   importPc, currentTasks, alert>>
    /\ UNCHANGED <<exported, modalVisible, successVisible>>
    /\ UNCHANGED todoUi

\* store.dispatch(editTask(payload))
DispatchEditTask(id, p) ==
    /\ CanDispatch
    /\ tasks' = editTask(tasks, EditPayload(id, p))
    /\ queue' = IF HasId(tasks, id) THEN Append(queue, saveTasks(tasks'))
                ELSE queue
    /\ lastAct' = Act("editTask", id, NoFile)
    /\ ops' = ops + 1
    /\ UNCHANGED <<settings, stTasks, stSettings, isReady, mounted, nextUuid,
                   importPc, currentTasks, alert>>
    /\ UNCHANGED <<exported, modalVisible, successVisible>>
    /\ UNCHANGED todoUi

MergeTasksPayloads ==
    BackupTaskLists \cup
    {<<ForeignTask, BadTask, StoredCopy>>, <<AddedCopy, ForeignTask>>,
     <<BadTask, AddedCopy, AddedCopy>>}

NextTodoStore ==
    \/ SetItemDone
    \/ RemoveItemDone
    \/ \E p \in TaskInputs : HandleAddTask(p)
    \/ \E id \in Ids(tasks), p \in TaskInputs : HandleEditTask(id, p)
    \/ \E id \in Ids(tasks) : HandleToggleTask(id)
    \/ \E id \in Ids(tasks) : HandleDelete(id)
    \/ \E payload \in MergeTasksPayloads : DispatchMergeTasks(payload)
    \/ DispatchClearTasks
    \/ \E id \in TaskIdPayloads : DispatchToggleTask(id)
    \/ \E id \in TaskIdPayloads, p \in TaskInputs : DispatchEditTask(id, p)

SpecTodoStore == InitHydrated /\ [][NextTodoStore]_vars

\* a task of a backup file made by hand: completed, without a completion
\* timestamp; it passes the check of the required string fields
DoneUnstampedTask ==
    Task("f5", "Essay", "History", "Low", TRUE, "2025-07-09", Null)

DoneUnstampedBackup ==
    File(TRUE, TRUE, <<DoneUnstampedTask>>, TRUE, EmptyPartial)

\* the task store under its reducers and the import of the backup above
NextCompletion ==
    \/ NextTodoStore
    \/ ImportPress
    \/ ImportFinish(DoneUnstampedBackup)
    \/ AlertClose

SpecCompletion == InitHydrated /\ [][NextCompletion]_vars

\* store.dispatch(mergeSettings(incoming))
DispatchMergeSettings(incoming) ==
    /\ CanDispatch
    /\ settings' = mergeSettings(settings, incoming)
    /\ queue' = Append(queue, saveSettingsToStorage(FullPartial(settings')))
    /\ lastAct' = Act("mergeSettings", "",
                      File(TRUE, TRUE, <<>>, TRUE, incoming))
    /\ ops' = ops + 1
    /\ UNCHANGED <<tasks, stTasks, stSettings, isReady, mounted, nextUuid,
                   importPc, currentTasks, alert>>
    /\ UNCHANGED <<exported, modalVisible, successVisible>>
    /\ UNCHANGED todoUi

\* store.dispatch(clearSettings())
DispatchClearSettings ==
    /\ CanDispatch
    /\ settings' = clearSettings(settings)
    /\ queue' = Append(queue,
                       Op("removeItem", "settings", "none", <<>>, EmptyPartial))
    /\ lastAct' = Act("clearSettings", "", NoFile)
    /\ ops' = ops + 1
    /\ UNCHANGED <<tasks, stTasks, stSettings, isReady, mounted, nextUuid,
                   importPc, currentTasks, alert>>
    /\ UNCHANGED <<exported, modalVisible, successVisible>>
    /\ UNCHANGED todoUi

\* store.dispatch(addSubject(label))
DispatchAddSubject(label) ==
    /\ CanDispatch
    /\ settings' = addSubject(settings, label)
    /\ queue' = IF ~Includes(settings.subjects, label)
                THEN Append(queue, saveSettingsToStorage(
                         Partial(Undefined, TRUE, settings'.subjects, Undefined)))
                ELSE queue
    /\ lastAct' = Act("addSubject", label, NoFile)
    /\ ops' = ops + 1
    /\ UNCHANGED <<tasks, stTasks, stSettings, isReady, mounted, nextUuid,
                   importPc, currentTasks, alert>>
    /\ UNCHANGED <<exported, modalVisible, successVisible>>
    /\ UNCHANGED todoUi

\* store.dispatch(deleteSubject(label))
DispatchDeleteSubject(label) ==
    /\ CanDispatch
    /\ settings' = deleteSubject(settings, label)
    /\ queue' = Append(queue, saveSettingsToStorage(
                         Partial(Undefined, TRUE, settings'.subjects, Undefined)))
    /\ lastAct' = Act("deleteSubject", label, NoFile)
    /\ ops' = ops + 1
    /\ UNCHANGED <<tasks, stTasks, stSettings, isReady, mounted, nextUuid,
                   importPc, currentTasks, alert>>
    /\ UNCHANGED <<exported, modalVisible, successVisible>>
    /\ UNCHANGED todoUi

\* store.dispatch(loadSettings(payload)): the reducer persists nothing
DispatchLoadSettings(payload) ==
    /\ CanDispatch
    /\ settings' = loadSettings(settings, payload)
    /\ lastAct' = Act("loadSettings", "",
                      File(TRUE, TRUE, <<>>, TRUE, payload))
    /\ ops' = ops + 1
    /\ UNCHANGED <<tasks, stTasks, stSettings, queue, isReady, mounted,
                   nextUuid, importPc, currentTasks, alert>>
    /\ UNCHANGED <<exported, modalVisible, successVisible>>
    /\ UNCHANGED todoUi

LoadSettingsPayloads ==
    {EmptyPartial,
     Partial("light", FALSE, <<>>, Undefined),
     Partial(Undefined, TRUE, <<"Biology", "Math">>, Undefined),
     Partial(Undefined, FALSE, <<>>, "06:15"),
     Partial(Undefined, FALSE, <<>>, Null),
     Partial("dark", TRUE, <<"Math", "Math">>, "06:15")}

MergeSettingsPayloads ==
    {EmptyPartial,
     Partial("dark", TRUE, <<"Physics", "Biology">>, "07:00"),
     Partial("light", TRUE, <<>>, Null),
     Partial("blue", FALSE, <<>>, Undefined),
     Partial(Undefined, TRUE, <<"Biology", "Math", "Biology">>, Undefined)}

NextSettingsStore ==
    \/ SaveSettingsRead
    \/ SetItemDone
    \/ RemoveItemDone
    \/ \E mode \in ThemeModes : ThemeSelect(mode)
    \/ \E label \in SubjectLabels : SubjectAdd(label)
    \/ \E label \in SubjectLabels : SubjectDelete(label)
    \/ \E time \in NotificationTimes : NotificationConfirm(time)
    \/ \E incoming \in MergeSettingsPayloads : DispatchMergeSettings(incoming)
    \/ DispatchClearSettings
    \/ \E label \in SubjectLabels : DispatchAddSubject(label)
    \/ \E label \in SubjectLabels : DispatchDeleteSubject(label)
    \/ \E payload \in LoadSettingsPayloads : DispatchLoadSettings(payload)

SpecSettingsStore == InitHydrated /\ [][NextSettingsStore]_vars

(***************************************************************************)
(* Properties of the task store.                                           *)
(***************************************************************************)

\* C1: in every reachable state no two tasks of the in-memory collection
\* have the same identifier.
C1_UniqueIds ==
    \A i, j \in 1..Len(tasks) : i # j => tasks[i].id # tasks[j].id

\* C2: a task of the in-memory collection stays in it, under the same
\* identifier, in the next state unless that step is deleteTask with its
\* identifier or clearTasks; in particular no completion of
\* loadTasksFromStorage removes it.
C2_TaskStaysUntilDeleted ==
    [][\A id \in Ids(tasks) :
          \/ id \in Ids(tasks')
          \/ lastAct'.kind = "deleteTask" /\ lastAct'.id = id
          \/ lastAct'.kind = "clearAll"]_vars

\* the tasks a restart reloads from the stored record
ReloadedTasks == loadTasksFulfilled(<<>>, stTasks)

\* C9: after bootstrap, once no storage operation is pending, the stored
\* tasks record holds the in-memory collection (a missing record standing
\* for the empty collection): a restart reloads the same tasks.
C9_TasksEventuallyPersisted ==
    (isReady /\ queue = <<>>) => ReloadedTasks = tasks

(***************************************************************************)
(* Properties of the import.                                               *)
(***************************************************************************)
ImportEnds == lastAct'.kind = "importFinish"

ImportedFile == lastAct'.file

\* the file parses and has a 'tasks' array and a non-null 'settings' object
WellFormed(file) ==
    file.isJson /\ file.tasksIsArray /\ file.settingsIsObject

\* C5: an import of a file that is not valid JSON, has no 'tasks' array or
\* has no non-null 'settings' object ends with the 'Import Failed' error,
\* and an import that ends with that error leaves the task collection and
\* the settings as they were and starts no storage write.
C5_FailedImportChangesNothing ==
    [][ImportEnds =>
          /\ ~WellFormed(ImportedFile) =>
                alert'.visible /\ alert'.type = "error"
          /\ alert'.type = "error" =>
                tasks' = tasks /\ settings' = settings /\ queue' = queue]_vars

C5_Witness ==
    /\ lastAct.kind = "importFinish"
    /\ ~lastAct.file.settingsIsObject
    /\ lastAct.file.tasks # <<>>
    /\ alert.visible
    /\ alert.type = "error"
    /\ tasks # <<>>

HasInvalidTask(file) == \E i \in 1..Len(file.tasks) : ~IsValidTask(file.tasks[i])

\* C6 as stated: importing a backup in which a task lacks a required
\* string field shows an error and aborts the import: no task of the
\* backup is added and the settings are not merged.
C6_InvalidTaskAbortsImport ==
    [][(ImportEnds /\ WellFormed(ImportedFile) /\ HasInvalidTask(ImportedFile))
          => /\ alert'.visible /\ alert'.type = "error"
             /\ tasks' = tasks
             /\ settings' = settings]_vars

\* C6 as amended: a task of a backup that lacks a required string field is
\* never added and raises no error; the import ends with 'Import
\* Successful' when the backup also holds a valid task whose identifier the
\* captured task list lacks, and with 'Nothing to Import' otherwise.
C6_InvalidTaskIsDropped ==
    [][(ImportEnds /\ WellFormed(ImportedFile) /\ HasInvalidTask(ImportedFile))
          => /\ \A i \in 1..Len(tasks') : IsValidTask(tasks'[i])
             /\ alert'.visible
             /\ alert'.type =
                  IF \E i \in 1..Len(ImportedFile.tasks) :
                        /\ IsValidTask(ImportedFile.tasks[i])
                        /\ ImportedFile.tasks[i].id \notin Ids(currentTasks)
                  THEN "success" ELSE "warning"]_vars

C6_Witness ==
    /\ lastAct.kind = "importFinish"
    /\ HasInvalidTask(lastAct.file)
    /\ alert.visible
    /\ alert.type = "success"
    /\ Len(tasks) > Len(currentTasks)
    /\ settings.themeMode = "dark"

\* C7: importing a well-formed backup in which every task identifier is in
\* the current task collection adds no task and ends with the 'Nothing to
\* Import' warning; the success message is shown only when at least one
\* task was added.
C7_NothingToImport ==
    [][ImportEnds =>
          /\ (/\ WellFormed(ImportedFile)
              /\ \A i \in 1..Len(ImportedFile.tasks) :
                    ImportedFile.tasks[i].id \in Ids(tasks))
                => tasks' = tasks /\ alert'.visible /\ alert'.type = "warning"
          /\ alert'.type = "success" => Len(tasks') > Len(tasks)]_vars

(***************************************************************************)
(* Properties of persistence.                                              *)
(***************************************************************************)

\* C3: after bootstrap, once no storage operation is pending,
\* loadSettingsFromStorage applied to the stored record returns exactly the
\* in-memory settings.
C3_SettingsEventuallyPersisted ==
    (isReady /\ queue = <<>>) => loadSettingsFromStorage(stSettings) = settings

\* C4: once Delete All Data was confirmed and every storage operation has
\* completed, the task collection is empty, the settings are the defaults,
\* and neither record exists in storage.
C4_DeleteAllClearsEverything ==
    (lastAct.user = "clearAll" /\ queue = <<>>) =>
        /\ tasks = <<>>
        /\ settings = defaultState
        /\ ~stTasks.present
        /\ ~stSettings.present

(***************************************************************************)
(* Properties of the merge reducers.                                       *)
(***************************************************************************)

\* positions of the payload whose task passes the required-string-field
\* check and whose identifier the collection lacks
NewPositions(ts, payload) ==
    {j \in 1..Len(payload) :
        IsValidTask(payload[j]) /\ ~HasId(ts, payload[j].id)}

C11_SubjectsUnique == NoDup(settings.subjects)

\* C12: in every reachable state the theme preference is one of light,
\* dark and system.
C12_ThemeValid == settings.themeMode \in ThemeModes

(***************************************************************************)
(* Properties of the settings record in storage.                           *)
(***************************************************************************)
\* the step in which a saveSettingsToStorage call, having read a record
\* that parses, issues its write
SaveIssuesWrite ==
    /\ HeadIs("getItem", "settings", "saveSettings")
    /\ Len(queue') = Len(queue)
    /\ queue' # queue

\* the step in which a write of the settings record completes
SettingsWriteCompletes ==
    /\ HeadIs("setItem", "settings", "none")
    /\ Len(queue') < Len(queue)

ReadFails(r) == ReadRejects(r) \/ ParseThrows(r)

\* C14: whatever the two startup reads yield (no record, a record that
\* parses, one that does not, a read that rejects), the application becomes
\* ready; at that moment the settings are the defaults when the settings
\* read failed, and the task collection is still empty when the tasks read
\* failed.
C14_StartupNeverBlocked ==
    /\ <>isReady
    /\ [][(~isReady /\ isReady') =>
            /\ ReadFails(stSettings) => settings' = defaultState
            /\ ReadFails(stTasks) => tasks' = <<>>
            /\ (stTasks.present /\ ~ReadFails(stTasks))
                   => tasks' = stTasks.val]_vars

\* the application is ready after a settings read that rejected and a
\* tasks record that did not parse
C14_Witness ==
    /\ isReady
    /\ ReadRejects(stSettings)
    /\ ParseThrows(stTasks)
    /\ settings = defaultState
    /\ tasks = <<>>

(***************************************************************************)
(* Properties of the task reducers.                                        *)
(***************************************************************************)
\* t and u agree on every field but the ones of the set given
SameTaskBut(t, u, fields) ==
    \A f \in (DOMAIN t) \ fields : t[f] = u[f]

\* ts and us are the same list but for position i
SameTasksBut(ts, us, i) ==
    /\ Len(ts) = Len(us)
    /\ \A j \in 1..Len(ts) : j # i => ts[j] = us[j]

\* C15: toggleTask(id) on an identifier of the collection flips the
\* completion flag of the task with it, makes completedAt a timestamp when
\* the task is now complete and null when it is now incomplete, and changes
\* no other field and no other task; toggling once more gives back the
\* first completion flag, with completedAt null when that is incomplete.
\* On an identifier no task has, the collection is unchanged and no write
\* is started.
C15_ToggleTask ==
    [][lastAct'.kind = "toggleTask" =>
         LET id == lastAct'.id
         IN IF HasId(tasks, id)
            THEN LET i == FindIndex(tasks, id)
                     twice == toggleTask(tasks', id)
                 IN /\ SameTasksBut(tasks, tasks', i)
                    /\ SameTaskBut(tasks[i], tasks'[i],
                                   {"completed", "completedAt"})
                    /\ tasks'[i].completed = ~tasks[i].completed
                    /\ tasks'[i].completed => IsString(tasks'[i].completedAt)
                    /\ ~tasks'[i].completed => tasks'[i].completedAt = Null
                    /\ twice[i].completed = tasks[i].completed
                    /\ ~twice[i].completed => twice[i].completedAt = Null
            ELSE tasks' = tasks /\ queue' = queue]_vars

\* the stored task has been completed and then toggled back
C15_Witness ==
    /\ lastAct.kind = "toggleTask"
    /\ lastAct.id = "s1"
    /\ ops = 2
    /\ tasks = <<StoredTask>>

\* C16: editTask on an identifier of the collection gives the task with it
\* the text, subject and priority of the payload and changes no other field
\* of it (identifier, completion flag, creation and completion timestamps)
\* and no other task, although the payload carries completed and createdAt;
\* on an identifier no task has, the collection is unchanged and no write is
\* started.
C16_EditTask ==
    [][lastAct'.kind = "editTask" =>
         LET id == lastAct'.id
         IN IF HasId(tasks, id)
            THEN LET i == FindIndex(tasks, id)
                 IN /\ SameTasksBut(tasks, tasks', i)
                    /\ SameTaskBut(tasks[i], tasks'[i],
                                   {"text", "subject", "priority"})
                    /\ \E p \in TaskInputs :
                          /\ tasks'[i].text = p.text
                          /\ tasks'[i].subject = p.subject
                          /\ tasks'[i].priority = p.priority
                    /\ queue' = Append(queue, saveTasks(tasks'))
            ELSE tasks' = tasks /\ queue' = queue]_vars

\* the stored task, completed, has been edited with a payload of another
\* day and completed: false
C16_Witness ==
    /\ lastAct.kind = "editTask"
    /\ tasks = <<Task("s1", "Read", "Physics", "Medium", TRUE,
                      "2025-07-10", Now)>>

(***************************************************************************)
(* Properties of the settings reducers.                                    *)
(***************************************************************************)
\* C17: addSubject with a label the subject list already has changes no
\* setting (the list keeps content, order and length) and starts no
\* storage write.
C17_AddSubjectTwiceIsNoOp ==
    [][(lastAct'.kind = "addSubject"
          /\ Includes(settings.subjects, lastAct'.id)) =>
         /\ settings' = settings
         /\ queue' = queue
         /\ stSettings' = stSettings]_vars

\* addSubject("Math") has been dispatched on the default list, which has it
C17_Witness ==
    /\ lastAct.kind = "addSubject"
    /\ lastAct.id = "Math"
    /\ ops = 1
    /\ queue = <<>>
    /\ settings.subjects = <<"Physics", "Chemistry", "Math">>

\* s without its entry at position i
RemoveAt(s, i) == SubSeq(s, 1, i - 1) \o SubSeq(s, i + 1, Len(s))

\* C18: deleteSubject(s) on a list that has s removes exactly one entry,
\* one equal to s, and keeps the other entries in their order (the length
\* goes down by exactly one); on a list without s the list is unchanged.
C18_DeleteSubjectRemovesOne ==
    [][lastAct'.kind = "deleteSubject" =>
         IF Includes(settings.subjects, lastAct'.id)
         THEN \E i \in 1..Len(settings.subjects) :
                 /\ settings.subjects[i] = lastAct'.id
                 /\ settings'.subjects = RemoveAt(settings.subjects, i)
         ELSE settings'.subjects = settings.subjects]_vars

\* C19: loadSettings(payload) gives each field the payload provides (a
\* theme that is not undefined, a subject array, a notification time that
\* is a string or null) the payload's value, keeps every other field, and
\* starts no storage write.
C19_LoadSettingsReplacesProvided ==
    [][lastAct'.kind = "loadSettings" =>
         LET payload == lastAct'.file.settings
         IN /\ settings'.themeMode =
                 IF payload.themeMode = Undefined THEN settings.themeMode
                 ELSE payload.themeMode
            /\ settings'.subjects =
                 IF payload.subjectsIsArray THEN payload.subjects
                 ELSE settings.subjects
            /\ settings'.notificationTime =
                 IF IsString(payload.notificationTime)
                    \/ payload.notificationTime = Null
                 THEN payload.notificationTime
                 ELSE settings.notificationTime
            /\ queue' = queue
            /\ stSettings' = stSettings]_vars

\* a payload of subjects alone has been loaded over the stored dark theme
\* and notification time
C19_Witness ==
    /\ lastAct.kind = "loadSettings"
    /\ lastAct.file.settings =
         Partial(Undefined, TRUE, <<"Biology", "Math">>, Undefined)
    /\ settings = [themeMode |-> "dark",
                   subjects |-> <<"Biology", "Math">>,
                   notificationTime |-> "08:00"]

\* a stored record that reads and parses and holds a valid theme, a
\* subject array and a notification time string
ValidFullRecord(r) ==
    /\ r.present /\ r.json /\ ~r.rejects
    /\ r.val.themeMode \in ThemeModes
    /\ r.val.subjectsIsArray
    /\ IsString(r.val.notificationTime)

\* C20: what loadSettingsFromStorage returns and bootstrapApp loads into
\* the store is, with no stored settings record, theme system, subjects
\* [Physics, Chemistry, Math] and notification time null, and with a
\* stored record holding a valid theme, a subject array and a notification
\* time string, exactly the stored values.
C20_LoadSettingsFromStorage ==
    [][lastAct'.kind = "loadSettings" =>
         /\ settings' = loadSettingsFromStorage(stSettings)
         /\ ~stSettings.present =>
               settings' = [themeMode |-> "system",
                            subjects |-> <<"Physics", "Chemistry", "Math">>,
                            notificationTime |-> Null]
         /\ ValidFullRecord(stSettings) =>
               settings' = [themeMode |-> stSettings.val.themeMode,
                            subjects |-> stSettings.val.subjects,
                            notificationTime |->
                                stSettings.val.notificationTime]]_vars

\* startup has loaded the stored record {dark, [Physics, Biology], 08:00}
C20_Witness ==
    /\ lastAct.kind = "loadSettings"
    /\ ValidFullRecord(stSettings)
    /\ settings = [themeMode |-> "dark",
                   subjects |-> <<"Physics", "Biology">>,
                   notificationTime |-> "08:00"]

\* C21: with a stored settings record that is not valid JSON,
\* loadSettingsFromStorage returns what it returns for a missing record,
\* theme system, subjects [Physics, Chemistry, Math] and notification time
\* null, and does not throw: bootstrapApp loads that result into the store
\* and goes on to load the tasks.
C21_CorruptSettingsGiveDefaults ==
    [][(lastAct'.kind = "loadSettings" /\ ParseThrows(stSettings)) =>
         /\ loadSettingsFromStorage(stSettings)
               = loadSettingsFromStorage(Missing(EmptyPartial))
         /\ settings' = [themeMode |-> "system",
                         subjects |-> <<"Physics", "Chemistry", "Math">>,
                         notificationTime |-> Null]
         /\ queue' = <<Op("getItem", "tasks", "bootTasks", <<>>,
                          EmptyPartial)>>
         /\ ~isReady']_vars

\* startup has gone past an unparsable settings record and awaits the tasks
C21_Witness ==
    /\ lastAct.kind = "loadSettings"
    /\ ParseThrows(stSettings)
    /\ settings = defaultState
    /\ HeadIs("getItem", "tasks", "bootTasks")

(***************************************************************************)
(* Properties of backup and restore.                                       *)
(***************************************************************************)
\* C22: when the exported file is imported after Delete All Data, with no
\* other change to the stores since the deletion, the task collection and
\* the settings are what they were when the file was exported.
C22_BackupRestoreRoundTrip ==
    [][(/\ lastAct'.kind = "importFinish"
        /\ lastAct'.file = exported
        /\ exported # NoFile
        /\ lastAct.user = "clearAll") =>
         /\ tasks' = exported.tasks
         /\ FullPartial(settings') = exported.settings]_vars

(***************************************************************************)
(* Properties of hydration.                                                *)
(***************************************************************************)
BootTasksReadPending ==
    \E i \in 1..Len(queue) : queue[i].cont = "bootTasks"

\* C23: the task screen is mounted only in rendered app content, and
\* nothing is rendered or done by the user before bootstrapApp has
\* finished; while bootstrapApp's tasks read is pending the settings are
\* already the loaded ones; once bootstrapApp has finished the app content
\* is rendered in every state, the notification time never being
\* undefined.
C23_HydratedBeforeUi ==
    /\ mounted => AppContentRendered
    /\ ~isReady => (ops = 0 /\ ~mounted)
    /\ BootTasksReadPending =>
          (~isReady /\ settings = loadSettingsFromStorage(stSettings))
    /\ isReady => AppContentRendered
    /\ settings.notificationTime # Undefined

\* the task screen is up after an import whose settings object has no
\* notification time
C23_Witness ==
    /\ mounted
    /\ AppContentRendered
    /\ lastAct.kind = "importFinish"
    /\ alert.type = "success"
    /\ lastAct.file.settings = EmptyPartial

(***************************************************************************)
(* Properties of Delete All Data.                                          *)
(***************************************************************************)
\* a step that issues a removeItem
IssuesRemove ==
    /\ Len(queue') > Len(queue)
    /\ queue'[Len(queue')].kind = "removeItem"

\* C24: the warning modal opens only by a press on Delete All Data; a
\* store is cleared and a record removal is issued only by the Delete
\* button of the open warning modal, which clears both stores and issues
\* both removals; Cancel or dismissal of the warning changes neither
\* tasks, settings, storage nor the pending storage operations; the 'Data
\* Deleted' modal opens only in the step that dispatched both clears.
C24_DeleteOnlyAfterConfirmation ==
    [][/\ (modalVisible' /\ ~modalVisible) =>
            (lastAct'.kind = "deletePress"
               /\ UNCHANGED <<tasks, settings, stTasks, stSettings, queue>>)
       /\ (IssuesRemove \/ lastAct'.kind = "clearAll") =>
            /\ modalVisible
            /\ lastAct'.kind = "clearAll"
            /\ tasks' = <<>>
            /\ settings' = defaultState
            /\ queue' = queue \o
                 <<Op("removeItem", "tasks", "none", <<>>, EmptyPartial),
                   Op("removeItem", "settings", "none", <<>>, EmptyPartial)>>
       /\ lastAct'.kind = "deleteCancel" =>
            (~modalVisible'
               /\ UNCHANGED <<tasks, settings, stTasks, stSettings, queue,
                              successVisible>>)
       /\ (successVisible' /\ ~successVisible) =>
            lastAct'.kind = "clearAll"]_vars

\* the 'Data Deleted' modal is up over stores cleared of a stored task and
\* a stored dark theme
C24_Witness ==
    /\ successVisible
    /\ ~modalVisible
    /\ lastAct.kind = "clearAll"
    /\ tasks = <<>>
    /\ settings = defaultState
    /\ stTasks = JsonStringify(<<StoredTask>>)
    /\ stSettings.val.themeMode = "dark"

(***************************************************************************)
(* Properties of the task screen.                                          *)
(***************************************************************************)
\* what the filter f accepts when a filter set to All accepts every task
AcceptedBy(task, f) ==
    /\ DayOf(task.createdAt) = f.selectedDate
    /\ f.filterPriority # "All" => task.priority = f.filterPriority
    /\ f.filterSubject # "All" => task.subject = f.filterSubject
    /\ f.filterStatus = "Completed" => task.completed
    /\ f.filterStatus = "Pending" => ~task.completed

\* C25: the list shown is exactly the tasks of the selected day that all
\* three filters accept, a filter set to All accepting every task; and
\* with a subject S of the subject list selected as the subject filter,
\* every task shown has subject S.
C25_FilteredTasks ==
    LET shown == filteredTasks(tasks, filters)
    IN /\ shown = SelectSeq(tasks, LAMBDA task : AcceptedBy(task, filters))
       /\ Includes(settings.subjects, filters.filterSubject) =>
             \A i \in 1..Len(shown) : shown[i].subject = filters.filterSubject

\* C26: a submit of the modal opened with the add button dispatches addTask
\* (one task more, the others as they were); a submit of the modal opened
\* by swipe-to-edit on a task dispatches editTask for that task's
\* identifier and adds no task; a submit with a blank title or an empty
\* subject dispatches nothing and shows the Missing Information alert.
C26_ModalDispatchesRightAction ==
    [][(form.modalVisible
          /\ lastAct'.kind \in {"addTask", "editTask", "submitInvalid"}) =>
         IF Trim(form.title) = "" \/ form.subject = ""
         THEN /\ lastAct'.kind = "submitInvalid"
              /\ form'.alertVisible
              /\ tasks' = tasks /\ queue' = queue
         ELSE IF form.openedBy = "add"
         THEN /\ lastAct'.kind = "addTask"
              /\ Len(tasks') = Len(tasks) + 1
              /\ SubSeq(tasks', 1, Len(tasks)) = tasks
         ELSE /\ lastAct'.kind = "editTask"
              /\ lastAct'.id = form.openedId
              /\ Len(tasks') = Len(tasks)]_vars

\* the weeks list is a run of consecutive 7-day weeks, each starting on a
\* Monday, without gap or duplicate, and holds the current week
WeeksWellFormed ==
    /\ \A i \in 1..Len(calendar.weeks) :
          /\ Len(calendar.weeks[i]) = 7
          /\ calendar.weeks[i][1] % 7 = 0
          /\ \A j \in 1..7 :
                calendar.weeks[i][j] = calendar.weeks[i][1] + (j - 1)
    /\ \A i \in 1..(Len(calendar.weeks) - 1) :
          calendar.weeks[i + 1][1] = calendar.weeks[i][1] + 7
    /\ \E i \in 1..Len(calendar.weeks) :
          \E j \in 1..7 : calendar.weeks[i][j] = TodayDay

\* C27: after a scroll that ends at index i <= 1, two earlier weeks are
\* prepended and the list shows the week the user had scrolled to, now at
\* index i + 2; the weeks list stays a gap-free run of consecutive Monday
\* weeks that holds the current week.
C27_CalendarKeepsPlace ==
    [][/\ WeeksWellFormed'
       /\ (lastAct'.kind = "scrollEnd" /\ calendar'.scrolledTo <= 1) =>
            /\ Len(calendar'.weeks) = Len(calendar.weeks) + 2
            /\ calendar'.visible = calendar'.scrolledTo + 2
            /\ calendar'.weeks[calendar'.visible + 1]
                 = calendar.weeks[calendar'.scrolledTo + 1]]_vars

\* the part of C27 about the weeks list alone
C27_WeeksStayWellFormed == []WeeksWellFormed

\* C28: an import that ends with the 'Nothing to Import' warning leaves the
\* settings as they were (theme, subjects, notification time), and the
\* tasks too, and writes nothing: the backup's settings are merged only
\* together with at least one new task.
C28_WarningLeavesSettings ==
    [][(lastAct'.kind = "importFinish"
          /\ alert'.visible /\ alert'.type = "warning") =>
         /\ settings' = settings
         /\ tasks' = tasks
         /\ queue' = queue]_vars

\* the warning is up for a backup whose settings object would have changed
\* the settings had it been merged
C28_Witness ==
    /\ lastAct.kind = "importFinish"
    /\ alert.visible /\ alert.type = "warning"
    /\ lastAct.file.settingsIsObject
    /\ mergeSettings(settings, lastAct.file.settings) # settings

\* C29: on a successful import the number N of 'N new tasks merged' is the
\* number of tasks by which the task collection grew.
C29_ReportedCountIsGrowth ==
    [][(lastAct'.kind = "importFinish"
          /\ alert'.visible /\ alert'.type = "success") =>
         alert'.n = Len(tasks') - Len(tasks)]_vars

\* C30: every task of the collection has a completion timestamp exactly
\* when its completion flag is true.
C30_StampedIffCompleted ==
    \A i \in 1..Len(tasks) :
        (tasks[i].completedAt # Null) <=> tasks[i].completed

====
